---- MODULE Spec2Model ----
(***************************************************************************)
(* BlockShare (DecentralizedFileVault): the sharing / authorization        *)
(* subsystem.  The HTTP handlers of server/routes.ts over the two          *)
(* implementations of IStorage (DatabaseStorage, the exported one, and     *)
(* MemStorage) and the FilecoinMockService blob store.                     *)
(*                                                                         *)
(* A request is one action: the handler runs from requireAuth to the       *)
(* response, every storage call it makes included.                         *)
(***************************************************************************)
EXTENDS Integers, FiniteSets, Sequences, TLC

(* ------------------------------ bounds --------------------------------- *)
MaxFiles == 2
MaxLinks == 1
MaxRequests == 2
MaxDelta == 1
MaxStat == 2

(* ------------------------------ inputs --------------------------------- *)
Anon == 0
\* two registered accounts; UnknownUser is an id and a mailbox nobody has
Users == {1, 2}
Callers == Users \cup {Anon}
UnknownUser == 3

FileIds == 1..MaxFiles
\* a mime type is <<major, minor>>, written major/minor in the source
Missing == "undefined"
Permissions == {"view", "edit", "download"}
Passwords == {"p1", "p2"}
NoToken == 0
Tokens == 1..MaxLinks
NoPassword == "null"

\* the ownerId of a body that names none
NoOwner == 0

\* the request bodies POST /api/files is tried with: an image and a PDF with
\* their ciphertext, a text file without encryptedData (what the client's
\* uploadFileMutation sends) and a body the schema rejects; a body may name
\* an ownerId of its own
Uploads ==
  { [size |-> 1, type |-> <<"image", "png">>, encryptionKey |-> "k1",
     encryptedData |-> "d1", ownerId |-> 2],
    [size |-> 2, type |-> <<"application", "pdf">>, encryptionKey |-> "k2",
     encryptedData |-> "d2", ownerId |-> 1],
    [size |-> 2, type |-> <<"text", "plain">>, encryptionKey |-> "k1",
     encryptedData |-> Missing, ownerId |-> NoOwner],
    [size |-> 1, type |-> <<"text", "plain">>, encryptionKey |-> Missing,
     encryptedData |-> "d1", ownerId |-> NoOwner] }

\* what a read request presents besides the session: nothing, or a link
\* token with a password
Presentations ==
  {<<NoToken, NoPassword>>} \cup (Tokens \X Passwords)

\* an e-mail address is <<mailbox, spelling>>; spelling 0 is the lower-case one
userEmail(u) == <<u, 0>>
toLowerCase(e) == <<e[1], 0>>
Emails == {userEmail(1), userEmail(2), <<2, 1>>, userEmail(UnknownUser)}

Max(a, b) == IF a >= b THEN a ELSE b

\* a Date is <<month, day of the month>> of one year without a leap day; the
\* clock is read on one of Dates, and on Today where the date decides nothing
DaysIn(month) ==
  IF month = 2 THEN 28
  ELSE IF month \in {4, 6, 9, 11} THEN 30
  ELSE 31
Today == <<1, 20>>
Dates == {Today, <<2, 25>>}
NoDate == <<0, 0>>
getDate(d) == d[2]
Mutant_setDate_clamp(d, day) ==
  IF day <= DaysIn(d[1]) THEN <<d[1], day>>
  ELSE <<d[1], DaysIn(d[1])>>
\* Date.prototype.setDate with a day past the end of the month rolls over
setDate(d, day) ==
  IF day <= DaysIn(d[1]) THEN <<d[1], day>>
  ELSE <<d[1] + 1, day - DaysIn(d[1])>>
\* the link lifetime of POST /api/files/share-link, in days
LinkDays == 7
Abs(x) == IF x >= 0 THEN x ELSE -x

\* the signed deltas updateUserStats is called with
Deltas == (-MaxDelta)..MaxDelta

VARIABLES
  backend,       \* which IStorage implementation `storage` is
  files,         \* files table / filesMap
  fileShares,    \* file_shares table / fileSharesMap
  shareLinks,    \* share_links table / shareLinksMap
  transactions,  \* transactions table / transactionsMap
  stats,         \* stats table / statsMap
  currentId,     \* serial sequences / MemStorage.currentId
  storedFiles,   \* FilecoinMockService.storedFiles, as a set of <<cid, data>>
  response,      \* the last request and the answer it got
  baseline,      \* the sequence values when the run that is followed began
  calls          \* the updateUserStats calls in progress: where each one is
                 \* and its local userStat

vars == <<backend, files, fileShares, shareLinks, transactions, stats,
          currentId, storedFiles, response, baseline, calls>>

store == <<files, fileShares, shareLinks, transactions, stats, currentId,
           storedFiles>>

(* ------------------------------ storage -------------------------------- *)
\* getFile: the row with that id, as a set of at most one row
getFile(fs, id) == {f \in fs : f.id = id}

DatabaseStorage_getUserByEmail(email) ==
  {u \in Users : userEmail(u) = email}

MemStorage_getUserByEmail(email) ==
  {u \in Users : toLowerCase(userEmail(u)) = toLowerCase(email)}

getUserByEmail(b, email) ==
  IF b = "db" THEN DatabaseStorage_getUserByEmail(email)
  ELSE MemStorage_getUserByEmail(email)

getUser(id) == {u \in Users : u = id}

Mutant_checkFileAccess_noOwner(fs, sh, fileId, userId) ==
  /\ getFile(fs, fileId) # {}
  /\ \E s \in sh : s.fileId = fileId /\ s.userId = userId

Mutant_checkFileAccess_anyUser(fs, sh, fileId, userId) ==
  getFile(fs, fileId) # {}

Mutant_checkFileAccess_readPermission(fs, sh, fileId, userId) ==
  /\ getFile(fs, fileId) # {}
  /\ \/ \E f \in getFile(fs, fileId) : f.ownerId = userId
     \/ \E s \in sh : s.fileId = fileId /\ s.userId = userId
                      /\ s.permission \in {"edit", "download"}

Mutant_checkFileAccess_linkHolder(fs, sh, fileId, userId) ==
  /\ getFile(fs, fileId) # {}
  /\ \/ \E f \in getFile(fs, fileId) : f.ownerId = userId
     \/ \E s \in sh : s.fileId = fileId /\ s.userId = userId
     \/ \E l \in shareLinks : l.fileId = fileId

DatabaseStorage_checkFileAccess(fs, sh, fileId, userId) ==
  /\ getFile(fs, fileId) # {}
  /\ \/ \E f \in getFile(fs, fileId) : f.ownerId = userId
     \/ \E s \in sh : s.fileId = fileId /\ s.userId = userId

Mutant_MemStorage_checkFileAccess_linked(fs, sh, fileId, userId) ==
  IF getFile(fs, fileId) = {} THEN FALSE
  ELSE IF \E f \in getFile(fs, fileId) : f.ownerId = userId THEN TRUE
  ELSE \/ \E s \in sh : s.fileId = fileId /\ s.userId = userId
       \/ \E l \in shareLinks : l.fileId = fileId

MemStorage_checkFileAccess(fs, sh, fileId, userId) ==
  IF getFile(fs, fileId) = {} THEN FALSE
  ELSE IF \E f \in getFile(fs, fileId) : f.ownerId = userId THEN TRUE
  ELSE \E s \in sh : s.fileId = fileId /\ s.userId = userId

checkFileAccess(b, fs, sh, fileId, userId) ==
  IF b = "db" THEN DatabaseStorage_checkFileAccess(fs, sh, fileId, userId)
  ELSE MemStorage_checkFileAccess(fs, sh, fileId, userId)

\* createFile: status and uploadedAt are defaults and carry no decision
createFile(id, size, type, cid, key, owner) ==
  [id |-> id, size |-> size, type |-> type, cid |-> cid,
   encryptionKey |-> key, ownerId |-> owner]

Mutant_createFileShare_wrongUser(id, fileId, userId, permission) ==
  [id |-> id, fileId |-> fileId, userId |-> UnknownUser,
   permission |-> permission]

Mutant_createFileShare_upsert(id, fileId, userId, permission) ==
  IF \E s \in fileShares : s.fileId = fileId /\ s.userId = userId
  THEN CHOOSE s \in fileShares : s.fileId = fileId /\ s.userId = userId
  ELSE [id |-> id, fileId |-> fileId, userId |-> userId,
        permission |-> permission]

createFileShare(id, fileId, userId, permission) ==
  [id |-> id, fileId |-> fileId, userId |-> userId, permission |-> permission]

\* createShareLink; createdAt is a default and carries no decision
createShareLink(id, fileId, token, requiresPassword, password, expiresAt) ==
  [id |-> id, fileId |-> fileId, linkToken |-> token,
   requiresPassword |-> requiresPassword, password |-> password,
   expiresAt |-> expiresAt]

getShareLink(links, token) == {l \in links : l.linkToken = token}

logTransaction(id, cid, fileId, type) ==
  [id |-> id, cid |-> cid, fileId |-> fileId, type |-> type]

(* stats *)
NoUpdates == [filesUploaded |-> 0, filesShared |-> 0, storageUsed |-> 0,
              downloads |-> 0]

createUserStats(id, userId) ==
  [id |-> id, userId |-> userId, filesUploaded |-> 0, filesShared |-> 0,
   storageUsed |-> 0, downloads |-> 0]

getUserStats(st, userId) == {s \in st : s.userId = userId}

\* the row updateUserStats works on: the stored one, or a fresh zeroed one
statRowFor(st, nid, userId) ==
  IF getUserStats(st, userId) = {} THEN createUserStats(nid, userId)
  ELSE CHOOSE s \in getUserStats(st, userId) :
         \A t \in getUserStats(st, userId) : s.id <= t.id

Mutant_updateUserStats_noClamp(st, nid, userId, updates) ==
  LET userStat == statRowFor(st, nid, userId)
      newValues == [userStat EXCEPT
        !.filesUploaded = userStat.filesUploaded + updates.filesUploaded,
        !.filesShared = userStat.filesShared + updates.filesShared,
        !.storageUsed = userStat.storageUsed + updates.storageUsed,
        !.downloads = userStat.downloads + updates.downloads]
  IN  {s \in st : s.id # userStat.id} \cup {newValues}

DatabaseStorage_updateUserStats(st, nid, userId, updates) ==
  LET userStat == statRowFor(st, nid, userId)
      newValues == [userStat EXCEPT
        !.filesUploaded = Max(0, userStat.filesUploaded + updates.filesUploaded),
        !.filesShared = Max(0, userStat.filesShared + updates.filesShared),
        !.storageUsed = Max(0, userStat.storageUsed + updates.storageUsed),
        !.downloads = userStat.downloads + updates.downloads]
  IN  {s \in st : s.id # userStat.id} \cup {newValues}

MemStorage_updateUserStats(st, nid, userId, updates) ==
  LET stat == statRowFor(st, nid, userId)
      updatedStat == [stat EXCEPT
        !.filesUploaded = stat.filesUploaded + updates.filesUploaded,
        !.filesShared = stat.filesShared + updates.filesShared,
        !.storageUsed = stat.storageUsed + updates.storageUsed,
        !.downloads = stat.downloads + updates.downloads]
      clamped == [updatedStat EXCEPT
        !.filesUploaded = Max(0, updatedStat.filesUploaded),
        !.filesShared = Max(0, updatedStat.filesShared),
        !.storageUsed = Max(0, updatedStat.storageUsed)]
  IN  {s \in st : s.userId # userId} \cup {clamped}

updateUserStats(b, st, nid, userId, updates) ==
  IF b = "db" THEN DatabaseStorage_updateUserStats(st, nid, userId, updates)
  ELSE MemStorage_updateUserStats(st, nid, userId, updates)

\* the stats sequence after updateUserStats: advanced when a row was created
statsIdAfter(st, nid, userId) ==
  IF getUserStats(st, userId) = {} THEN nid + 1 ELSE nid

\* a call of updateUserStats: pc is the statement it is about to run
Procs == {1, 2}
NoCall == [pc |-> "idle", userId |-> Anon, updates |-> NoUpdates,
           userStat |-> {}]

(* blob store *)
Mutant_retrieveFile_anyCid(blobs, cid) == {b[2] : b \in blobs}

retrieveFile(blobs, cid) == {b[2] : b \in {x \in blobs : x[1] = cid}}

(* ------------------------------ responses ------------------------------ *)
NoData == "none"
NoKey == "none"
NoCid == 0

Reply(op, caller, fileId, status) ==
  [op |-> op, caller |-> caller, fileId |-> fileId, status |-> status,
   file |-> {}, data |-> NoData, key |-> NoKey, share |-> {}, link |-> {},
   token |-> NoToken, password |-> NoPassword, updates |-> NoUpdates,
   at |-> NoDate, shared |-> {}, supabase |-> "none", cid |-> NoCid]

\* no response is on its way to a client
NoResponse == Reply("none", Anon, 0, 0)

Init ==
  /\ backend \in {"db", "mem"}
  /\ files = {}
  /\ fileShares = {}
  /\ shareLinks = {}
  /\ transactions = {}
  /\ stats = {}
  /\ currentId = [files |-> 1, fileShares |-> 1, shareLinks |-> 1,
                  transactions |-> 1, stats |-> 1, cids |-> 1]
  /\ storedFiles = {}
  /\ response = NoResponse
  /\ baseline = currentId
  /\ calls = [p \in Procs |-> NoCall]


(* ------------------------------ handlers ------------------------------- *)
\* the requests answered so far that inserted a row: every upload and every
\* download logs a transaction, every grant and every link is a row
Inserted(ids) ==
  (ids.transactions - 1) + (ids.fileShares - 1) + (ids.shareLinks - 1)

\* the model stops inserting after MaxRequests such requests of the run
CanInsert == Inserted(currentId) - Inserted(baseline) < MaxRequests

Mutant_readGate_accessFirst(b, fs, sh, caller, fileId) ==
  IF caller = Anon THEN 401
  ELSE IF ~checkFileAccess(b, fs, sh, fileId, caller) THEN 403
  ELSE IF getFile(fs, fileId) = {} THEN 404
  ELSE 200

\* requireAuth, then the existence check, then checkFileAccess: the status
\* the three read handlers reach before they touch the blob store
readGate(b, fs, sh, caller, fileId) ==
  IF caller = Anon THEN 401
  ELSE IF getFile(fs, fileId) = {} THEN 404
  ELSE IF ~checkFileAccess(b, fs, sh, fileId, caller) THEN 403
  ELSE 200

Mutant_ownerGate_anyAccount(fs, caller, fileId) ==
  IF caller = Anon THEN 401
  ELSE IF getFile(fs, fileId) = {} THEN 404
  ELSE 200

Mutant_ownerGate_grantee(fs, caller, fileId) ==
  IF caller = Anon THEN 401
  ELSE IF getFile(fs, fileId) = {} THEN 404
  ELSE IF ~checkFileAccess(backend, fs, fileShares, fileId, caller) THEN 403
  ELSE 200

\* requireAuth, then the existence check, then file.ownerId !== user.id
ownerGate(fs, caller, fileId) ==
  IF caller = Anon THEN 401
  ELSE IF getFile(fs, fileId) = {} THEN 404
  ELSE IF \E f \in getFile(fs, fileId) : f.ownerId # caller THEN 403
  ELSE 200

Mutant_previewable_any(type) == TRUE

\* file.type.startsWith('image/') || file.type === 'application/pdf'
previewable(type) == type[1] = "image" \/ type = <<"application", "pdf">>

\* the server takes one request at a time: the previous response has been read
Idle == response = NoResponse

\* a request may carry a link token and a password; no handler reads them
Presented(r, tok, pw) == [r EXCEPT !.token = tok, !.password = pw]

Mutant_parsedOwnerId_bodyWins(bodyOwnerId, userId) ==
  IF bodyOwnerId # NoOwner THEN bodyOwnerId ELSE userId

\* insertFileSchema.parse({...fileData, ownerId: user.id}): the later key wins
parsedOwnerId(bodyOwnerId, userId) == userId

\* POST /api/files
PostFiles_handler(caller, size, type, key, data, bodyOwnerId) ==
  /\ UNCHANGED <<backend, baseline, calls, fileShares, shareLinks>>
  /\ IF caller = Anon
     THEN /\ response' = Reply("POST /files", caller, 0, 401)
          /\ UNCHANGED store
     ELSE IF key = Missing
     THEN /\ response' = Reply("POST /files", caller, 0, 400)
          /\ UNCHANGED store
     ELSE LET cid == currentId.cids
              file == createFile(currentId.files, size, type, cid, key,
                                 parsedOwnerId(bodyOwnerId, caller))
          IN  /\ CanInsert
              /\ currentId.files <= MaxFiles
              /\ storedFiles' = storedFiles \cup {<<cid, data>>}
              /\ files' = files \cup {file}
              /\ stats' = updateUserStats(backend, stats, currentId.stats, caller,
                            [NoUpdates EXCEPT !.filesUploaded = 1,
                                              !.storageUsed = size])
              /\ transactions' = transactions \cup
                   {logTransaction(currentId.transactions, cid, file.id, "store")}
              /\ currentId' = [currentId EXCEPT
                   !.cids = @ + 1, !.files = @ + 1, !.transactions = @ + 1,
                   !.stats = statsIdAfter(stats, @, caller)]
              /\ response' = [Reply("POST /files", caller, file.id, 201)
                                EXCEPT !.file = {file}]

PostFiles(caller, size, type, key, data, bodyOwnerId) ==
  /\ Idle
  /\ PostFiles_handler(caller, size, type, key, data, bodyOwnerId)

Mutant_PostFilesUpload_putFirst(caller, data) ==
  /\ Idle
  /\ UNCHANGED <<backend, baseline, calls, files, fileShares, shareLinks,
                 transactions, stats>>
  /\ IF caller = Anon
     THEN /\ response' = Reply("POST /files/upload", caller, 0, 401)
          /\ UNCHANGED <<storedFiles, currentId>>
     ELSE /\ currentId.cids <= MaxFiles
          /\ storedFiles' = storedFiles \cup {<<currentId.cids, data>>}
          /\ currentId' = [currentId EXCEPT !.cids = @ + 1]
          /\ response' = IF data = Missing
                         THEN Reply("POST /files/upload", caller, 0, 400)
                         ELSE [Reply("POST /files/upload", caller, 0, 200)
                                 EXCEPT !.cid = currentId.cids]

\* POST /api/files/upload: the blob put on its own; the answer carries the
\* cid under which the ciphertext is held
PostFilesUpload(caller, data) ==
  /\ Idle
  /\ UNCHANGED <<backend, baseline, calls, files, fileShares, shareLinks,
                 transactions, stats>>
  /\ IF caller = Anon
     THEN /\ response' = Reply("POST /files/upload", caller, 0, 401)
          /\ UNCHANGED <<storedFiles, currentId>>
     ELSE IF data = Missing
     THEN /\ response' = Reply("POST /files/upload", caller, 0, 400)
          /\ UNCHANGED <<storedFiles, currentId>>
     ELSE /\ currentId.cids <= MaxFiles
          /\ storedFiles' = storedFiles \cup {<<currentId.cids, data>>}
          /\ currentId' = [currentId EXCEPT !.cids = @ + 1]
          /\ response' = [Reply("POST /files/upload", caller, 0, 200)
                            EXCEPT !.cid = currentId.cids]

\* the client's upload (uploadFileMutation): uploadToFilecoin has posted the
\* ciphertext to /api/files/upload and was answered with a cid; the client
\* reads the answer and posts the metadata of that file, the key and the cid
\* to /api/files.  The body names no encryptedData, and the handler does not
\* read the cid of the body.
uploadFileMutation(u) ==
  /\ response.op = "POST /files/upload"
  /\ response.status = 200
  /\ u.encryptionKey # Missing
  /\ u.encryptedData \in retrieveFile(storedFiles, response.cid)
  /\ PostFiles_handler(response.caller, u.size, u.type, u.encryptionKey,
                       Missing, NoOwner)

\* GET /api/files/:id
GetFile(caller, fileId, tok, pw) ==
  LET gate == readGate(backend, files, fileShares, caller, fileId)
      r == Presented(Reply("GET /files/:id", caller, fileId, gate), tok, pw)
  IN  /\ Idle
      /\ response' = IF gate = 200 THEN [r EXCEPT !.file = getFile(files, fileId)]
                     ELSE r
      /\ UNCHANGED <<backend, baseline, calls, store>>

Mutant_downloadCountedFor_caller(file, caller) == caller

\* the user whose downloads counter a download adds to: the owner of the
\* file, whoever the caller is
downloadCountedFor(file, caller) == file.ownerId

\* GET /api/files/:id/download
Download(caller, fileId, tok, pw) ==
  LET gate == readGate(backend, files, fileShares, caller, fileId)
      r == Presented(Reply("GET /files/:id/download", caller, fileId, gate), tok, pw)
  IN  /\ Idle
      /\ UNCHANGED <<backend, baseline, calls, files, fileShares, shareLinks, storedFiles>>
      /\ IF gate # 200
         THEN /\ response' = r
              /\ UNCHANGED <<transactions, stats, currentId>>
         ELSE LET file == CHOOSE f \in getFile(files, fileId) : TRUE
                  blob == retrieveFile(storedFiles, file.cid) \ {Missing}
              IN  IF blob = {}
                  THEN /\ response' = [r EXCEPT !.status = 500]
                       /\ UNCHANGED <<transactions, stats, currentId>>
                  ELSE /\ CanInsert
                       /\ stats' = updateUserStats(backend, stats, currentId.stats,
                                     downloadCountedFor(file, caller),
                                     [NoUpdates EXCEPT !.downloads = 1])
                       /\ transactions' = transactions \cup
                            {logTransaction(currentId.transactions, file.cid,
                                            file.id, "retrieve")}
                       /\ currentId' = [currentId EXCEPT
                            !.transactions = @ + 1,
                            !.stats = statsIdAfter(stats, @, downloadCountedFor(file, caller))]
                       /\ response' = [r EXCEPT
                            !.data = CHOOSE d \in blob : TRUE,
                            !.key = file.encryptionKey]

Mutant_Preview_logged(caller, fileId, tok, pw) ==
  LET gate == readGate(backend, files, fileShares, caller, fileId)
      r == Presented(Reply("GET /files/:id/preview", caller, fileId, gate), tok, pw)
  IN  /\ Idle
      /\ UNCHANGED <<backend, baseline, calls, files, fileShares, shareLinks, storedFiles>>
      /\ IF gate # 200
         THEN /\ response' = r
              /\ UNCHANGED <<transactions, stats, currentId>>
         ELSE LET file == CHOOSE f \in getFile(files, fileId) : TRUE
                  blob == retrieveFile(storedFiles, file.cid) \ {Missing}
              IN  IF ~previewable(file.type)
                  THEN /\ response' = [r EXCEPT !.status = 400]
                       /\ UNCHANGED <<transactions, stats, currentId>>
                  ELSE IF blob = {}
                  THEN /\ response' = [r EXCEPT !.status = 500]
                       /\ UNCHANGED <<transactions, stats, currentId>>
                  ELSE /\ CanInsert
                       /\ stats' = updateUserStats(backend, stats, currentId.stats,
                                     file.ownerId,
                                     [NoUpdates EXCEPT !.downloads = 1])
                       /\ transactions' = transactions \cup
                            {logTransaction(currentId.transactions, file.cid,
                                            file.id, "retrieve")}
                       /\ currentId' = [currentId EXCEPT
                            !.transactions = @ + 1,
                            !.stats = statsIdAfter(stats, @, file.ownerId)]
                       /\ response' = [r EXCEPT
                            !.data = CHOOSE d \in blob : TRUE,
                            !.key = file.encryptionKey]

\* GET /api/files/:id/preview
Preview(caller, fileId, tok, pw) ==
  LET gate == readGate(backend, files, fileShares, caller, fileId)
      r == Presented(Reply("GET /files/:id/preview", caller, fileId, gate), tok, pw)
  IN  /\ Idle
      /\ UNCHANGED <<backend, baseline, calls, store>>
      /\ IF gate # 200
         THEN response' = r
         ELSE LET file == CHOOSE f \in getFile(files, fileId) : TRUE
                  blob == retrieveFile(storedFiles, file.cid) \ {Missing}
              IN  IF ~previewable(file.type)
                  THEN response' = [r EXCEPT !.status = 400]
                  ELSE IF blob = {}
                  THEN response' = [r EXCEPT !.status = 500]
                  ELSE response' = [r EXCEPT
                         !.data = CHOOSE d \in blob : TRUE,
                         !.key = file.encryptionKey]

\* storage.deleteFile.  DatabaseStorage deletes the grants, then the links,
\* then the file row, each in its own statement; the last one is rejected
\* while a transactions row references the file (transactions.file_id
\* references files.id, no cascade).  ok is whether the call returned.
DatabaseStorage_deleteFile(fs, sh, links, txs, id) ==
  LET blocked == \E t \in txs : t.fileId = id
  IN  [ok |-> ~blocked,
       fileShares |-> {s \in sh : s.fileId # id},
       shareLinks |-> {l \in links : l.fileId # id},
       files |-> IF blocked THEN fs ELSE {f \in fs : f.id # id}]

Mutant_deleteFile_keepGrants(fs, sh, links, txs, id) ==
  [ok |-> TRUE,
   fileShares |-> sh,
   shareLinks |-> links,
   files |-> {f \in fs : f.id # id}]

MemStorage_deleteFile(fs, sh, links, txs, id) ==
  [ok |-> TRUE,
   fileShares |-> {s \in sh : s.fileId # id},
   shareLinks |-> {l \in links : l.fileId # id},
   files |-> {f \in fs : f.id # id}]

deleteFile(b, fs, sh, links, txs, id) ==
  IF b = "db" THEN DatabaseStorage_deleteFile(fs, sh, links, txs, id)
  ELSE MemStorage_deleteFile(fs, sh, links, txs, id)

Mutant_DeleteFile_noStats(caller, fileId) ==
  LET gate == ownerGate(files, caller, fileId)
      r == Reply("DELETE /files/:id", caller, fileId, gate)
  IN  /\ Idle
      /\ UNCHANGED <<backend, baseline, calls, transactions, storedFiles,
                     stats, currentId>>
      /\ IF gate # 200
         THEN /\ response' = r
              /\ UNCHANGED <<files, fileShares, shareLinks>>
         ELSE LET d == deleteFile(backend, files, fileShares, shareLinks,
                                  transactions, fileId)
              IN  /\ files' = d.files
                  /\ fileShares' = d.fileShares
                  /\ shareLinks' = d.shareLinks
                  /\ response' = IF d.ok THEN r ELSE [r EXCEPT !.status = 500]

\* DELETE /api/files/:id
DeleteFile(caller, fileId) ==
  LET gate == ownerGate(files, caller, fileId)
      r == Reply("DELETE /files/:id", caller, fileId, gate)
  IN  /\ Idle
      /\ UNCHANGED <<backend, baseline, calls, transactions, storedFiles>>
      /\ IF gate # 200
         THEN /\ response' = r
              /\ UNCHANGED <<files, fileShares, shareLinks, stats, currentId>>
         ELSE LET file == CHOOSE f \in getFile(files, fileId) : TRUE
                  d == deleteFile(backend, files, fileShares, shareLinks,
                                  transactions, fileId)
              IN  /\ files' = d.files
                  /\ fileShares' = d.fileShares
                  /\ shareLinks' = d.shareLinks
                  /\ IF d.ok
                     THEN /\ stats' = updateUserStats(backend, stats,
                                        currentId.stats, caller,
                                        [NoUpdates EXCEPT
                                           !.filesUploaded = -1,
                                           !.storageUsed = -file.size])
                          /\ currentId' = [currentId EXCEPT
                               !.stats = statsIdAfter(stats, @, caller)]
                          /\ response' = r
                     ELSE /\ UNCHANGED <<stats, currentId>>
                          /\ response' = [r EXCEPT !.status = 500]

\* what a share handler leaves when it returns before the insert
Refused(sh, st, ids, status) ==
  [status |-> status, fileShares |-> sh, stats |-> st, currentId |-> ids,
   share |-> {}]

\* the handler of POST /api/files/share as a function of the tables: the
\* status, the tables it leaves and the grant it returns
Share_handler(b, fs, sh, st, ids, caller, fileId, email, permission) ==
  LET gate == ownerGate(fs, caller, fileId)
      userToShare == getUserByEmail(b, email)
  IN  IF gate # 200 THEN Refused(sh, st, ids, gate)
      ELSE IF userToShare = {} THEN Refused(sh, st, ids, 404)
      ELSE IF permission = Missing THEN Refused(sh, st, ids, 400)
      ELSE LET fileShare == createFileShare(ids.fileShares, fileId,
                              CHOOSE u \in userToShare : TRUE, permission)
           IN  [status |-> 201,
                fileShares |-> sh \cup {fileShare},
                stats |-> updateUserStats(b, st, ids.stats, caller,
                            [NoUpdates EXCEPT !.filesShared = 1]),
                currentId |-> [ids EXCEPT
                                 !.fileShares = @ + 1,
                                 !.stats = statsIdAfter(st, @, caller)],
                share |-> {fileShare}]

Mutant_ShareById_handler_noCatch(b, fs, sh, st, ids, caller, fileId, recipientId, permission, signed) ==
  LET gate == ownerGate(fs, caller, fileId)
      recipientUser == getUser(recipientId)
  IN  IF gate # 200 THEN Refused(sh, st, ids, gate)
      ELSE IF recipientUser = {} THEN Refused(sh, st, ids, 404)
      ELSE IF permission = Missing THEN Refused(sh, st, ids, 400)
      ELSE LET fileShare == createFileShare(ids.fileShares, fileId,
                              CHOOSE u \in recipientUser : TRUE, permission)
               written ==
                 [status |-> 201,
                  fileShares |-> sh \cup {fileShare},
                  stats |-> updateUserStats(b, st, ids.stats, caller,
                              [NoUpdates EXCEPT !.filesShared = 1]),
                  currentId |-> [ids EXCEPT
                                   !.fileShares = @ + 1,
                                   !.stats = statsIdAfter(st, @, caller)],
                  share |-> {fileShare}]
           IN  IF signed THEN written
               ELSE [written EXCEPT !.status = 500, !.share = {}]

\* the handler of POST /api/files/share-by-id; signed is whether
\* supabase.shareFile returned a URL (it throws otherwise).  The call sits in
\* a try whose catch only logs, so a throw too goes on to the response.
ShareById_handler(b, fs, sh, st, ids, caller, fileId, recipientId, permission, signed) ==
  LET gate == ownerGate(fs, caller, fileId)
      recipientUser == getUser(recipientId)
  IN  IF gate # 200 THEN Refused(sh, st, ids, gate)
      ELSE IF recipientUser = {} THEN Refused(sh, st, ids, 404)
      ELSE IF permission = Missing THEN Refused(sh, st, ids, 400)
      ELSE LET fileShare == createFileShare(ids.fileShares, fileId,
                              CHOOSE u \in recipientUser : TRUE, permission)
               written ==
                 [status |-> 201,
                  fileShares |-> sh \cup {fileShare},
                  stats |-> updateUserStats(b, st, ids.stats, caller,
                              [NoUpdates EXCEPT !.filesShared = 1]),
                  currentId |-> [ids EXCEPT
                                   !.fileShares = @ + 1,
                                   !.stats = statsIdAfter(st, @, caller)],
                  share |-> {fileShare}]
               caught == ~signed
           IN  IF signed \/ caught THEN written
               ELSE [written EXCEPT !.status = 500, !.share = {}]

\* POST /api/files/share
Share(caller, fileId, email, permission) ==
  LET h == Share_handler(backend, files, fileShares, stats, currentId,
                         caller, fileId, email, permission)
  IN  /\ Idle
      /\ h.status = 201 => CanInsert
      /\ fileShares' = h.fileShares
      /\ stats' = h.stats
      /\ currentId' = h.currentId
      /\ response' = [Reply("POST /files/share", caller, fileId, h.status)
                        EXCEPT !.share = h.share]
      /\ UNCHANGED <<backend, baseline, calls, files, shareLinks, transactions,
                     storedFiles>>

\* POST /api/files/share-by-id
ShareById(caller, fileId, recipientId, permission, signed) ==
  LET h == ShareById_handler(backend, files, fileShares, stats, currentId,
                             caller, fileId, recipientId, permission, signed)
  IN  /\ Idle
      /\ h.status = 201 => CanInsert
      /\ fileShares' = h.fileShares
      /\ stats' = h.stats
      /\ currentId' = h.currentId
      /\ response' = [Reply("POST /files/share-by-id", caller, fileId,
                            h.status)
                        EXCEPT !.share = h.share,
                               !.supabase = IF h.share = {} THEN "none"
                                            ELSE IF signed THEN "signed"
                                            ELSE "failed"]
      /\ UNCHANGED <<backend, baseline, calls, files, shareLinks, transactions,
                     storedFiles>>

\* `${domain}/shared/${linkToken}`
fullShareLink(linkToken) == <<"domain", "/shared/", linkToken>>

\* POST /api/files/share-link, the clock reading now; crypto.randomBytes(16)
\* is a token no stored link has
ShareLink(caller, fileId, requirePassword, password, now) ==
  LET gate == ownerGate(files, caller, fileId)
      r == Reply("POST /files/share-link", caller, fileId, gate)
      expiresAt == setDate(now, getDate(now) + LinkDays)
  IN  /\ Idle
      /\ UNCHANGED <<backend, baseline, calls, files, fileShares, transactions, stats,
                     storedFiles>>
      /\ IF gate # 200
         THEN /\ response' = r
              /\ UNCHANGED <<shareLinks, currentId>>
         ELSE LET linkToken == currentId.shareLinks
                  shareLink == createShareLink(currentId.shareLinks, fileId,
                                 linkToken, requirePassword,
                                 IF requirePassword THEN password
                                 ELSE NoPassword, expiresAt)
              IN  /\ CanInsert
                  /\ currentId.shareLinks <= MaxLinks
                  /\ shareLinks' = shareLinks \cup {shareLink}
                  /\ currentId' = [currentId EXCEPT !.shareLinks = @ + 1]
                  /\ response' = [r EXCEPT
                       !.status = 201,
                       !.password = password,
                       !.at = now,
                       !.link = {[shareLink |-> fullShareLink(linkToken),
                                  expiresAt |-> expiresAt]}]

(* routing *)
\* the GET routes of apiRouter in the order they are registered; a segment
\* ":id" is a route parameter
Routes ==
  << [path |-> <<"files">>, op |-> "GET /files"],
     [path |-> <<"files", ":id">>, op |-> "GET /files/:id"],
     [path |-> <<"files", ":id", "download">>, op |-> "GET /files/:id/download"],
     [path |-> <<"files", ":id", "preview">>, op |-> "GET /files/:id/preview"],
     [path |-> <<"files", "shared">>, op |-> "GET /files/shared"],
     [path |-> <<"stats">>, op |-> "GET /stats"] >>

\* a route pattern matches a path of the same length, segment by segment
match(pattern, path) ==
  /\ Len(pattern) = Len(path)
  /\ \A i \in 1..Len(path) : pattern[i] = ":id" \/ pattern[i] = path[i]

\* the router runs the first registered route that matches; every handler
\* answers without calling next()
dispatch(path) ==
  LET hits == {i \in 1..Len(Routes) : match(Routes[i].path, path)}
  IN  IF hits = {} THEN "none"
      ELSE Routes[CHOOSE i \in hits : \A j \in hits : i <= j].op

\* parseInt of a segment that is no number
NaN == -1

\* getSharedFiles: one entry <<grant id, file>> per grant row of the user
\* whose file exists
getSharedFiles(fs, sh, userId) ==
  UNION {{<<s.id, f>> : f \in getFile(fs, s.fileId)} :
           s \in {x \in sh : x.userId = userId}}

\* a request GET /api/files/shared.  Dispatched to the handler of
\* /files/:id it runs with req.params.id = "shared": MemStorage.getFile(NaN)
\* finds nothing (404), the query of DatabaseStorage.getFile(NaN) is
\* rejected and the handler's catch answers 500.
GetFilesShared(caller) ==
  LET op == dispatch(<<"files", "shared">>)
      r == Reply("GET /files/shared", caller, 0, 200)
  IN  /\ Idle
      /\ UNCHANGED <<backend, baseline, calls, store>>
      /\ IF caller = Anon
         THEN response' = [r EXCEPT !.status = 401]
         ELSE IF op = "GET /files/:id"
         THEN response' = [r EXCEPT !.fileId = NaN,
                                    !.status = IF backend = "db" THEN 500
                                               ELSE 404]
         ELSE response' = [r EXCEPT
                !.shared = getSharedFiles(files, fileShares, caller)]

\* the client reads the response; the server keeps nothing of it
Deliver ==
  /\ ~Idle
  /\ response' = NoResponse
  /\ UNCHANGED <<backend, baseline, calls, store>>

Next ==
  \/ \E c \in Callers, u \in Uploads :
       PostFiles(c, u.size, u.type, u.encryptionKey, u.encryptedData,
                 u.ownerId)
  \/ \E c \in Callers, f \in FileIds, q \in Presentations :
       GetFile(c, f, q[1], q[2])
  \/ \E c \in Callers, f \in FileIds, q \in Presentations :
       Download(c, f, q[1], q[2])
  \/ \E c \in Callers, f \in FileIds, q \in Presentations :
       Preview(c, f, q[1], q[2])
  \/ \E c \in Callers, f \in FileIds : DeleteFile(c, f)
  \/ \E c \in Callers, f \in FileIds, e \in Emails,
        p \in Permissions \cup {Missing} : Share(c, f, e, p)
  \/ \E c \in Callers, f \in FileIds, u \in Users \cup {UnknownUser},
        p \in Permissions \cup {Missing}, ok \in BOOLEAN :
       ShareById(c, f, u, p, ok)
  \/ \E c \in Callers, f \in FileIds, rp \in BOOLEAN,
        p \in Passwords \cup {NoPassword} : ShareLink(c, f, rp, p, Today)
  \/ \E c \in Callers : GetFilesShared(c)
  \/ Deliver

Spec == Init /\ [][Next]_vars

TypeOK ==
  /\ backend \in {"db", "mem"}
  /\ \A f \in files : f.id \in FileIds /\ f.ownerId \in Users
  /\ \A s \in fileShares : s.userId \in Users
  /\ response.status \in {0, 200, 201, 400, 401, 403, 404, 500}

(* ------------------- updateUserStats called directly ------------------- *)
\* the counters of a row, added up (downloads by its size)
Weight(row) ==
  row.filesUploaded + row.filesShared + row.storageUsed + Abs(row.downloads)

RECURSIVE TotalWeight(_)
TotalWeight(st) ==
  IF st = {} THEN 0
  ELSE LET s == CHOOSE x \in st : TRUE
       IN  Weight(s) + TotalWeight(st \ {s})

\* one call storage.updateUserStats(userId, updates); the calls followed
\* are those that leave the counters of the table within MaxStat in total
StatsCall(userId, updates) ==
  LET st == updateUserStats(backend, stats, currentId.stats, userId, updates)
  IN  /\ Idle
      /\ TotalWeight(st) <= MaxStat
      /\ stats' = st
      /\ currentId' = [currentId EXCEPT
           !.stats = statsIdAfter(stats, @, userId)]
      /\ response' = [Reply("updateUserStats", userId, 0, 0)
                        EXCEPT !.updates = updates]
      /\ UNCHANGED <<backend, baseline, calls, files, fileShares, shareLinks, transactions,
                     storedFiles>>

NextStats ==
  \/ \E u \in Users, fu \in Deltas, fs \in Deltas, su \in Deltas,
        dl \in Deltas :
       StatsCall(u, [filesUploaded |-> fu, filesShared |-> fs,
                     storageUsed |-> su, downloads |-> dl])
  \/ Deliver

SpecStats == Init /\ [][NextStats]_vars

(* ------------------ updateUserStats calls that overlap ----------------- *)
\* the adjustments of an upload and of a delete of a file of size s
RaceUpdates ==
  {[NoUpdates EXCEPT !.filesUploaded = d, !.storageUsed = d * s] :
     d \in {-1, 1}, s \in 1..MaxDelta}

\* the counters DatabaseStorage.updateUserStats computes from the userStat
\* it holds
DatabaseStorage_newValues(userStat, updates) ==
  [userStat EXCEPT
     !.filesUploaded = Max(0, userStat.filesUploaded + updates.filesUploaded),
     !.filesShared = Max(0, userStat.filesShared + updates.filesShared),
     !.storageUsed = Max(0, userStat.storageUsed + updates.storageUsed),
     !.downloads = userStat.downloads + updates.downloads]

Mutant_updateWhere_inPlace(st, userStat, updates) ==
  {IF s.id = userStat.id THEN DatabaseStorage_newValues(s, updates) ELSE s :
     s \in st}

\* db.update(stats).set(newValues).where(eq(stats.id, userStat.id)): the row
\* with that id takes the counters computed from the userStat read earlier
updateWhere(st, userStat, updates) ==
  {IF s.id = userStat.id THEN DatabaseStorage_newValues(userStat, updates)
   ELSE s : s \in st}

\* updateUserStats up to its first await: getUserStats returns a row of the
\* user (the query has no order) or none
CallGet(p, userId, updates) ==
  /\ calls[p].pc = "idle"
  /\ IF getUserStats(stats, userId) = {}
     THEN calls' = [calls EXCEPT ![p] =
            [pc |-> "create", userId |-> userId, updates |-> updates,
             userStat |-> {}]]
     ELSE \E row \in getUserStats(stats, userId) :
            calls' = [calls EXCEPT ![p] =
              [pc |-> "update", userId |-> userId, updates |-> updates,
               userStat |-> {row}]]
  /\ UNCHANGED <<backend, baseline, store, response>>

\* userStat = await this.createUserStats(userId)
CallCreate(p) ==
  LET row == createUserStats(currentId.stats, calls[p].userId)
  IN  /\ calls[p].pc = "create"
      /\ stats' = stats \cup {row}
      /\ currentId' = [currentId EXCEPT !.stats = @ + 1]
      /\ calls' = [calls EXCEPT ![p].pc = "update", ![p].userStat = {row}]
      /\ UNCHANGED <<backend, baseline, files, fileShares, shareLinks,
                     transactions, storedFiles, response>>

\* the update statement; the calls followed are those that leave the
\* counters of the table within MaxStat in total
CallUpdate(p) ==
  LET st == updateWhere(stats, CHOOSE r \in calls[p].userStat : TRUE,
                        calls[p].updates)
  IN  /\ calls[p].pc = "update"
      /\ TotalWeight(st) <= MaxStat
      /\ stats' = st
      /\ calls' = [calls EXCEPT ![p].pc = "done"]
      /\ UNCHANGED <<backend, baseline, files, fileShares, shareLinks,
                     transactions, currentId, storedFiles, response>>

\* the call returns to its handler
CallReturn(p) ==
  /\ calls[p].pc = "done"
  /\ calls' = [calls EXCEPT ![p] = NoCall]
  /\ UNCHANGED <<backend, baseline, store, response>>

NextRace ==
  \/ \E p \in Procs, u \in Users, d \in RaceUpdates : CallGet(p, u, d)
  \/ \E p \in Procs : CallCreate(p)
  \/ \E p \in Procs : CallUpdate(p)
  \/ \E p \in Procs : CallReturn(p)

\* the exported storage is DatabaseStorage
InitRace == Init /\ backend = "db"

SpecRace == InitRace /\ [][NextRace]_vars

(* ----------------------- a vault that holds a file --------------------- *)
\* the first fixture of Uploads, the image
Image == CHOOSE u \in Uploads : u.type[1] = "image"

\* the server after user 1 uploaded the image and read the answer: what
\* PostFiles(1, Image.size, Image.type, Image.encryptionKey,
\* Image.encryptedData) and Deliver leave of Init
VaultRows ==
  /\ backend \in {"db", "mem"}
  /\ files = {createFile(1, Image.size, Image.type, 1, Image.encryptionKey, 1)}
  /\ fileShares = {}
  /\ shareLinks = {}
  /\ transactions = {logTransaction(1, 1, 1, "store")}
  /\ stats = updateUserStats(backend, {}, 1, 1,
                [NoUpdates EXCEPT !.filesUploaded = 1,
                                  !.storageUsed = Image.size])
  /\ currentId = [files |-> 2, fileShares |-> 1, shareLinks |-> 1,
                  transactions |-> 2, stats |-> 2, cids |-> 2]
  /\ storedFiles = {<<1, Image.encryptedData>>}
  /\ response = NoResponse
  /\ calls = [p \in Procs |-> NoCall]

InitVault == VaultRows /\ baseline = currentId

\* the requests followed from there: uploads, downloads, grants and deletes
NextVault ==
  \/ \E c \in Callers, u \in Uploads :
       PostFiles(c, u.size, u.type, u.encryptionKey, u.encryptedData,
                 u.ownerId)
  \/ \E c \in Callers, f \in FileIds, q \in Presentations :
       Download(c, f, q[1], q[2])
  \/ \E c \in Callers, f \in FileIds : DeleteFile(c, f)
  \/ \E c \in Callers, f \in FileIds, e \in Emails,
        p \in Permissions \cup {Missing} : Share(c, f, e, p)
  \/ \E c \in Callers, f \in FileIds, u \in Users \cup {UnknownUser},
        p \in Permissions \cup {Missing}, ok \in BOOLEAN :
       ShareById(c, f, u, p, ok)
  \/ Deliver

SpecVault == InitVault /\ [][NextVault]_vars

\* every route of the server on that vault, POST /api/files/upload
\* included, followed for one more request that inserts a row and any
\* number of requests that are refused
InitRequests ==
  /\ VaultRows
  /\ baseline = [currentId EXCEPT !.transactions = @ - (MaxRequests - 1)]

NextRequests ==
  \/ Next
  \/ \E c \in Callers, d \in {Image.encryptedData, Missing} :
       PostFilesUpload(c, d)
  \/ \E u \in Uploads : uploadFileMutation(u)

SpecRequests == InitRequests /\ [][NextRequests]_vars

\* the link requests of that vault on every date of the clock, with the
\* reads and the deletes
NextLinks ==
  \/ \E c \in Callers, f \in FileIds, rp \in BOOLEAN,
        p \in Passwords \cup {NoPassword}, now \in Dates :
       ShareLink(c, f, rp, p, now)
  \/ \E c \in Callers, f \in FileIds, q \in Presentations :
       GetFile(c, f, q[1], q[2])
  \/ \E c \in Callers, f \in FileIds : DeleteFile(c, f)
  \/ Deliver

SpecLinks == InitVault /\ [][NextLinks]_vars

(* ------------------- requests of the vault that overlap ---------------- *)
\* A handler runs up to its next await in one step; calls[p] holds where
\* request p is: the statement it is about to run, its caller, its file and
\* the recipient of a grant.
Request(pc, caller, fileId, userId) ==
  [pc |-> pc, caller |-> caller, fileId |-> fileId, userId |-> userId]

\* share, share-link and DELETE up to the file and owner checks
ReqCheck(p, kind, caller, fileId, userId) ==
  /\ calls[p] = NoCall
  /\ ownerGate(files, caller, fileId) = 200
  /\ calls' = [calls EXCEPT ![p] =
       Request(IF kind = "share" THEN "share:lookup"
               ELSE IF kind = "link" THEN "link:insert"
               ELSE IF backend = "db" THEN "delete:shares"
               ELSE "delete:all",
               caller, fileId, userId)]
  /\ UNCHANGED <<backend, baseline, store, response>>

\* await storage.getUserByEmail(email)
ReqShareLookup(p) ==
  /\ calls[p].pc = "share:lookup"
  /\ calls' = [calls EXCEPT ![p].pc = "share:insert"]
  /\ UNCHANGED <<backend, baseline, store, response>>

\* whether the insert of a row that references file id is accepted:
\* file_shares.file_id and share_links.file_id reference files.id in the
\* database; the maps of MemStorage take any row
insertAccepted(b, fs, fileId) == b = "mem" \/ getFile(fs, fileId) # {}

\* await storage.createFileShare(shareData); a rejected insert ends the
\* request (500)
ReqShareInsert(p) ==
  LET c == calls[p]
      fileShare == createFileShare(currentId.fileShares, c.fileId, c.userId,
                                   "view")
  IN  /\ c.pc = "share:insert"
      /\ CanInsert
      /\ IF insertAccepted(backend, files, c.fileId)
         THEN /\ fileShares' = fileShares \cup {fileShare}
              /\ currentId' = [currentId EXCEPT !.fileShares = @ + 1]
              /\ calls' = [calls EXCEPT ![p].pc = "share:stats"]
         ELSE /\ UNCHANGED <<fileShares, currentId>>
              /\ calls' = [calls EXCEPT ![p] = NoCall]
      /\ UNCHANGED <<backend, baseline, files, shareLinks, transactions,
                     stats, storedFiles, response>>

\* await storage.createShareLink(shareLinkData), then the response
ReqLinkInsert(p) ==
  LET c == calls[p]
      shareLink == createShareLink(currentId.shareLinks, c.fileId,
                     currentId.shareLinks, FALSE, NoPassword,
                     setDate(Today, getDate(Today) + LinkDays))
  IN  /\ c.pc = "link:insert"
      /\ CanInsert
      /\ currentId.shareLinks <= MaxLinks
      /\ IF insertAccepted(backend, files, c.fileId)
         THEN /\ shareLinks' = shareLinks \cup {shareLink}
              /\ currentId' = [currentId EXCEPT !.shareLinks = @ + 1]
         ELSE UNCHANGED <<shareLinks, currentId>>
      /\ calls' = [calls EXCEPT ![p] = NoCall]
      /\ UNCHANGED <<backend, baseline, files, fileShares, transactions,
                     stats, storedFiles, response>>

\* MemStorage.deleteFile has no await: the three maps change in one step
ReqDeleteAll(p) ==
  LET c == calls[p]
      d == MemStorage_deleteFile(files, fileShares, shareLinks, transactions,
                                 c.fileId)
  IN  /\ c.pc = "delete:all"
      /\ files' = d.files
      /\ fileShares' = d.fileShares
      /\ shareLinks' = d.shareLinks
      /\ calls' = [calls EXCEPT ![p].pc = "delete:stats"]
      /\ UNCHANGED <<backend, baseline, transactions, stats, currentId,
                     storedFiles, response>>

\* DatabaseStorage.deleteFile, first statement
ReqDeleteShares(p) ==
  /\ calls[p].pc = "delete:shares"
  /\ fileShares' = {s \in fileShares : s.fileId # calls[p].fileId}
  /\ calls' = [calls EXCEPT ![p].pc = "delete:links"]
  /\ UNCHANGED <<backend, baseline, files, shareLinks, transactions, stats,
                 currentId, storedFiles, response>>

\* DatabaseStorage.deleteFile, second statement
ReqDeleteLinks(p) ==
  /\ calls[p].pc = "delete:links"
  /\ shareLinks' = {l \in shareLinks : l.fileId # calls[p].fileId}
  /\ calls' = [calls EXCEPT ![p].pc = "delete:file"]
  /\ UNCHANGED <<backend, baseline, files, fileShares, transactions, stats,
                 currentId, storedFiles, response>>

\* DatabaseStorage.deleteFile, third statement: rejected while a
\* transaction, a grant or a link references the file; the handler's catch
\* then answers 500
ReqDeleteFile(p) ==
  LET id == calls[p].fileId
      referenced == \/ \E t \in transactions : t.fileId = id
                    \/ \E s \in fileShares : s.fileId = id
                    \/ \E l \in shareLinks : l.fileId = id
  IN  /\ calls[p].pc = "delete:file"
      /\ IF referenced
         THEN /\ UNCHANGED files
              /\ calls' = [calls EXCEPT ![p] = NoCall]
         ELSE /\ files' = {f \in files : f.id # id}
              /\ calls' = [calls EXCEPT ![p].pc = "delete:stats"]
      /\ UNCHANGED <<backend, baseline, fileShares, shareLinks, transactions,
                     stats, currentId, storedFiles, response>>

\* await storage.updateUserStats(user.id, ...) of a share or a DELETE, then
\* the response; the file the DELETE handler read is the image, the only
\* file of this vault
ReqStats(p) ==
  LET c == calls[p]
      size == Image.size
      updates == IF c.pc = "share:stats"
                 THEN [NoUpdates EXCEPT !.filesShared = 1]
                 ELSE [NoUpdates EXCEPT !.filesUploaded = -1,
                                        !.storageUsed = -size]
  IN  /\ c.pc \in {"share:stats", "delete:stats"}
      /\ stats' = updateUserStats(backend, stats, currentId.stats, c.caller,
                                  updates)
      /\ currentId' = [currentId EXCEPT
           !.stats = statsIdAfter(stats, @, c.caller)]
      /\ calls' = [calls EXCEPT ![p] = NoCall]
      /\ UNCHANGED <<backend, baseline, files, fileShares, shareLinks,
                     transactions, storedFiles, response>>

NextOverlap ==
  \/ \E p \in Procs, k \in {"share", "link", "delete"}, c \in Users,
        f \in FileIds, u \in Users : ReqCheck(p, k, c, f, u)
  \/ \E p \in Procs : ReqShareLookup(p)
  \/ \E p \in Procs : ReqShareInsert(p)
  \/ \E p \in Procs : ReqLinkInsert(p)
  \/ \E p \in Procs : ReqDeleteAll(p)
  \/ \E p \in Procs : ReqDeleteShares(p)
  \/ \E p \in Procs : ReqDeleteLinks(p)
  \/ \E p \in Procs : ReqDeleteFile(p)
  \/ \E p \in Procs : ReqStats(p)

SpecOverlap == InitVault /\ [][NextOverlap]_vars

(* ------------------------------- claims -------------------------------- *)
ReadOps == {"GET /files/:id", "GET /files/:id/download",
            "GET /files/:id/preview"}
GrantOps == {"POST /files/share", "POST /files/share-by-id"}
OwnerOps == GrantOps \cup {"POST /files/share-link"}

HasGrant(sh, fileId, userId) ==
  \E s \in sh : s.fileId = fileId /\ s.userId = userId

IsOwner(fs, fileId, userId) ==
  \E f \in getFile(fs, fileId) : f.ownerId = userId

\* the response carries nothing of a file
NoFileData(r) == r.file = {} /\ r.data = NoData /\ r.key = NoKey

\* C1: in every reachable state the owner of every stored file passes
\* checkFileAccess, in DatabaseStorage and in MemStorage, whatever grants and
\* links exist.
C1_OwnerAlwaysHasAccess ==
  \A f \in files :
    /\ checkFileAccess(backend, files, fileShares, f.id, f.ownerId)
    /\ DatabaseStorage_checkFileAccess(files, fileShares, f.id, f.ownerId)
    /\ MemStorage_checkFileAccess(files, fileShares, f.id, f.ownerId)

\* a stored file that has a grant to somebody else
C1_Witness ==
  \E f \in files : \E s \in fileShares :
    s.fileId = f.id /\ s.userId # f.ownerId

\* C2: a user who is not the owner of an existing file and has no grant on it
\* fails checkFileAccess, and the read requests of such a user are answered
\* 403 with no metadata, ciphertext or key.
C2_NoGrantNoAccess ==
  /\ \A f \in files : \A u \in Users :
       (u # f.ownerId /\ ~HasGrant(fileShares, f.id, u)) =>
         /\ ~checkFileAccess(backend, files, fileShares, f.id, u)
         /\ ~DatabaseStorage_checkFileAccess(files, fileShares, f.id, u)
         /\ ~MemStorage_checkFileAccess(files, fileShares, f.id, u)
  /\ ( /\ response.op \in ReadOps
       /\ response.caller \in Users
       /\ getFile(files, response.fileId) # {}
       /\ ~IsOwner(files, response.fileId, response.caller)
       /\ ~HasGrant(fileShares, response.fileId, response.caller) )
     => (response.status = 403 /\ NoFileData(response))

\* a download by a stranger to the file was answered 403
C2_Witness ==
  /\ response.op = "GET /files/:id/download"
  /\ response.status = 403
  /\ getFile(files, response.fileId) # {}
  /\ ~HasGrant(fileShares, response.fileId, response.caller)

\* C3: when a share request (by e-mail or by id) is answered 201, the
\* recipient named in the returned grant passes checkFileAccess for the file
\* of the request.
C3_ShareGrantsAccess ==
  (response.op \in GrantOps /\ response.status = 201) =>
    /\ response.share # {}
    /\ \A s \in response.share :
         /\ s.fileId = response.fileId
         /\ s.userId \in Users
         /\ checkFileAccess(backend, files, fileShares, response.fileId,
                             s.userId)

\* a grant to a user other than the owner was just created
C3_Witness ==
  /\ response.op \in GrantOps
  /\ response.status = 201
  /\ \E s \in response.share :
       ~IsOwner(files, response.fileId, s.userId)

\* C4: grants are never revoked: a user who passes checkFileAccess for a
\* file keeps passing it in the next state whenever the file still exists.
C4_GrantsPermanent ==
  [][\A f \in FileIds : \A u \in Users :
       ( /\ checkFileAccess(backend, files, fileShares, f, u)
         /\ getFile(files', f) # {} )
       => checkFileAccess(backend, files', fileShares', f, u)]_vars

\* C5: a DELETE answered 200 leaves no file row, no grant and no link with
\* that file id, and leaves the transaction log as it was.
C5_DeleteCascades ==
  [][(response'.op = "DELETE /files/:id" /\ response'.status = 200) =>
       /\ getFile(files', response'.fileId) = {}
       /\ \A s \in fileShares' : s.fileId # response'.fileId
       /\ \A l \in shareLinks' : l.fileId # response'.fileId
       /\ transactions' = transactions]_vars

\* a DELETE was answered 200 for a file that had a grant and whose store
\* transaction is still in the log
C5_Witness ==
  /\ response.op = "DELETE /files/:id"
  /\ response.status = 200
  /\ currentId.fileShares > 1
  /\ \E t \in transactions : t.fileId = response.fileId

\* C6: a share, share-by-id or share-link request for an existing file by an
\* account that is not its owner is answered 403 and leaves grants, links and
\* stats as they were.
C6_OnlyOwnerShares ==
  [][( /\ response'.op \in OwnerOps
       /\ response'.caller \in Users
       /\ getFile(files, response'.fileId) # {}
       /\ ~IsOwner(files, response'.fileId, response'.caller) )
     => /\ response'.status = 403
        /\ UNCHANGED <<fileShares, shareLinks, stats>>]_vars

\* a share request by a user holding an edit grant was answered 403
C6_Witness ==
  /\ response.op = "POST /files/share"
  /\ response.status = 403
  /\ \E s \in fileShares :
       /\ s.fileId = response.fileId
       /\ s.userId = response.caller
       /\ s.permission = "edit"

\* C7: a DELETE for an existing file by an account that is not its owner is
\* answered 403 and leaves the file, the grants, the links and the stats as
\* they were.
C7_DeleteOwnerOnly ==
  [][( /\ response'.op = "DELETE /files/:id"
       /\ response'.caller \in Users
       /\ getFile(files, response'.fileId) # {}
       /\ ~IsOwner(files, response'.fileId, response'.caller) )
     => /\ response'.status = 403
        /\ UNCHANGED <<files, fileShares, shareLinks, stats>>]_vars

\* a DELETE by a user holding a grant on the file was answered 403
C7_Witness ==
  /\ response.op = "DELETE /files/:id"
  /\ response.status = 403
  /\ HasGrant(fileShares, response.fileId, response.caller)
  /\ getFile(files, response.fileId) # {}

\* the grants with every permission replaced by p
Repermit(sh, p) == {[s EXCEPT !.permission = p] : s \in sh}

\* C8: the read gate does not look at the permission of a grant: for an
\* existing file and a user who is not its owner the gate is the same
\* whatever the permissions stored in the grants are, and a read request of
\* such a user is denied (403) exactly when no grant row for the pair exists.
C8_PermissionIgnored ==
  /\ \A f \in files : \A u \in Users \ {f.ownerId} :
       \A p \in Permissions \cup {"other"} :
         readGate(backend, files, fileShares, u, f.id)
           = readGate(backend, files, Repermit(fileShares, p), u, f.id)
  /\ ( /\ response.op \in ReadOps
       /\ response.caller \in Users
       /\ getFile(files, response.fileId) # {}
       /\ ~IsOwner(files, response.fileId, response.caller) )
     => (response.status = 403
           <=> ~HasGrant(fileShares, response.fileId, response.caller))

\* a user whose only grant says "view" got ciphertext and key
C8_Witness ==
  /\ response.op = "GET /files/:id/preview"
  /\ response.status = 200
  /\ response.data # NoData
  /\ ~IsOwner(files, response.fileId, response.caller)
  /\ \A s \in fileShares :
       (s.fileId = response.fileId /\ s.userId = response.caller)
         => s.permission = "view"

\* the request presented the token of a stored password-protected link to
\* the file it asks for, with another password than the link's
WrongPassword(r) ==
  \E l \in shareLinks :
    /\ l.linkToken = r.token
    /\ l.fileId = r.fileId
    /\ l.requiresPassword
    /\ l.password # r.password

\* C9: a read request that presents the token of a password-protected link
\* with a wrong password gets no metadata, ciphertext or key out of it: it
\* is served only to a signed-in owner or grantee of the file, who is served
\* without the token too.
C9_WrongPasswordDenied ==
  (response.op \in ReadOps /\ WrongPassword(response)) =>
    \/ NoFileData(response)
    \/ /\ response.caller \in Users
       /\ \/ IsOwner(files, response.fileId, response.caller)
          \/ HasGrant(fileShares, response.fileId, response.caller)

\* a token was presented with a wrong password and the request was refused
C9_Witness ==
  /\ response.op = "GET /files/:id/download"
  /\ WrongPassword(response)
  /\ response.status \in {401, 403}
  /\ NoFileData(response)

\* the row of a user, or the zeroed row updateUserStats would create
StoredStorageUsed(st, userId) ==
  IF getUserStats(st, userId) = {} THEN 0
  ELSE (statRowFor(st, 0, userId)).storageUsed

\* C10: after any sequence of updateUserStats calls with signed deltas no
\* stored filesUploaded, filesShared or storageUsed is negative, and a call
\* whose storageUsed delta is -N with N above the stored value leaves
\* storageUsed = 0.
C10_CountersNeverNegative ==
  [][ /\ \A s \in stats' :
           s.filesUploaded >= 0 /\ s.filesShared >= 0 /\ s.storageUsed >= 0
      /\ ( /\ response'.op = "updateUserStats"
           /\ response'.updates.storageUsed < 0
           /\ -response'.updates.storageUsed
                > StoredStorageUsed(stats, response'.caller) )
         => StoredStorageUsed(stats', response'.caller) = 0 ]_vars

\* a call took 1 from filesUploaded = 2 and 1 from storageUsed = 0
C10_Witness ==
  /\ response.op = "updateUserStats"
  /\ response.updates.filesUploaded = -1
  /\ response.updates.storageUsed = -1
  /\ \E s \in getUserStats(stats, response.caller) :
       s.filesUploaded = 1 /\ s.storageUsed = 0

\* the counters of a user as GET /api/stats reports them: the stored row, or
\* zeroes when there is none
StatRow(st, userId) ==
  IF getUserStats(st, userId) = {} THEN createUserStats(0, userId)
  ELSE statRowFor(st, 0, userId)

\* C11: the sequential scenario upload, share by e-mail, delete.  An upload
\* by a user whose counters are zero leaves filesUploaded = 1 and storageUsed
\* = the size of the file; the owner's share by e-mail takes filesShared from
\* 0 to 1 and the recipient's GET of the file succeeds; the owner's DELETE of
\* that file, the only one counted, takes storageUsed and filesUploaded back
\* to 0 and the recipient's GET of the file is answered 404.
C11_UploadShareDelete ==
  [][ /\ ( /\ response'.op = "POST /files"
           /\ response'.status = 201
           /\ StatRow(stats, response'.caller).filesUploaded = 0
           /\ StatRow(stats, response'.caller).storageUsed = 0 )
         => \A f \in response'.file :
              /\ StatRow(stats', response'.caller).filesUploaded = 1
              /\ StatRow(stats', response'.caller).storageUsed = f.size
      /\ ( /\ response'.op = "POST /files/share"
           /\ response'.status = 201
           /\ StatRow(stats, response'.caller).filesShared = 0 )
         => /\ StatRow(stats', response'.caller).filesShared = 1
            /\ \A s \in response'.share :
                 readGate(backend, files', fileShares', s.userId,
                          response'.fileId) = 200
      /\ \A f \in files : \A s \in fileShares :
           ( /\ response'.op = "DELETE /files/:id"
             /\ response'.caller = f.ownerId
             /\ response'.fileId = f.id
             /\ s.fileId = f.id
             /\ s.userId # f.ownerId
             /\ StatRow(stats, f.ownerId).filesUploaded = 1
             /\ StatRow(stats, f.ownerId).storageUsed = f.size )
           => /\ StatRow(stats', f.ownerId).filesUploaded = 0
              /\ StatRow(stats', f.ownerId).storageUsed = 0
              /\ readGate(backend, files', fileShares', s.userId, f.id) = 404
    ]_vars

FileOps == ReadOps \cup OwnerOps \cup {"DELETE /files/:id"}

\* C12: when a signed-in caller sends a file request (metadata, download,
\* preview, delete, share, share-by-id, share-link) for an id no stored file
\* has, checkFileAccess is false for that id and every user, and the request
\* is answered 404, never 403, with nothing of a file, and changes nothing.
C12_MissingFileIs404 ==
  [][( /\ response'.op \in FileOps
       /\ response'.caller \in Users
       /\ getFile(files, response'.fileId) = {} )
     => /\ \A u \in Users \cup {UnknownUser} :
             /\ ~checkFileAccess(backend, files, fileShares,
                                 response'.fileId, u)
             /\ ~DatabaseStorage_checkFileAccess(files, fileShares,
                                                 response'.fileId, u)
             /\ ~MemStorage_checkFileAccess(files, fileShares,
                                            response'.fileId, u)
        /\ response'.status = 404
        /\ NoFileData(response')
        /\ UNCHANGED store ]_vars

\* a share-link request for the id of a deleted file was answered 404
C12_Witness ==
  /\ response.op = "POST /files/share-link"
  /\ response.caller \in Users
  /\ response.status = 404
  /\ response.fileId < currentId.files
  /\ getFile(files, response.fileId) = {}

\* C13: a share request (by e-mail or by id) answered 201 adds exactly one
\* grant row, the returned one, whether or not the pair already had a grant,
\* and adds exactly 1 to the caller's filesShared; the caller's other
\* counters, the stats of every other user, the files, the links and the
\* transactions stay as they were.  So n such requests for one pair leave n
\* rows.
C13_ShareAddsOneRow ==
  [][(response'.op \in GrantOps /\ response'.status = 201) =>
       /\ fileShares \subseteq fileShares'
       /\ Cardinality(fileShares') = Cardinality(fileShares) + 1
       /\ response'.share = fileShares' \ fileShares
       /\ StatRow(stats', response'.caller)
            = [StatRow(stats, response'.caller) EXCEPT
                 !.filesShared = @ + 1,
                 !.id = StatRow(stats', response'.caller).id]
       /\ \A u \in Users \ {response'.caller} :
            getUserStats(stats', u) = getUserStats(stats, u)
       /\ UNCHANGED <<files, shareLinks, transactions>>]_vars

\* the second grant for a pair was just created: two rows for it, and the
\* owner's filesShared is 2
C13_Witness ==
  /\ response.op \in GrantOps
  /\ response.status = 201
  /\ \E s \in response.share : \E t \in fileShares :
       t.id # s.id /\ t.fileId = s.fileId /\ t.userId = s.userId
  /\ StatRow(stats, response.caller).filesShared = 2

\* the days of the year before a month, and the day of the year of a Date
RECURSIVE DaysBefore(_)
DaysBefore(month) ==
  IF month <= 1 THEN 0 ELSE DaysBefore(month - 1) + DaysIn(month - 1)

DayOfYear(d) == DaysBefore(d[1]) + d[2]

\* C14: a share-link request answered 201 has stored one link for the file
\* whose expiresAt is the day of the request plus 7 days and whose password
\* is the one supplied when requiresPassword is set and null otherwise; the
\* response carries that expiresAt and a URL that ends in the stored token.
\* No stored link without requiresPassword carries a password.
C14_LinkExpiryAndPassword ==
  /\ \A l \in shareLinks : ~l.requiresPassword => l.password = NoPassword
  /\ (response.op = "POST /files/share-link" /\ response.status = 201) =>
       /\ Cardinality(response.link) = 1
       /\ \A r \in response.link :
            \E l \in shareLinks :
              /\ l.fileId = response.fileId
              /\ r.shareLink[Len(r.shareLink)] = l.linkToken
              /\ r.expiresAt = l.expiresAt
              /\ l.expiresAt[2] \in 1..DaysIn(l.expiresAt[1])
              /\ DayOfYear(l.expiresAt) = DayOfYear(response.at) + 7
              /\ l.requiresPassword => l.password = response.password

\* a password-protected link was issued on 25 February and expires on 4 March
C14_Witness ==
  /\ response.op = "POST /files/share-link"
  /\ response.status = 201
  /\ response.at = <<2, 25>>
  /\ \E l \in shareLinks :
       /\ l.requiresPassword
       /\ l.password = "p1"
       /\ l.expiresAt = <<3, 4>>
       /\ \E r \in response.link : r.expiresAt = l.expiresAt

\* C15: a preview request of a signed-in user for an existing file returns
\* ciphertext or key only when the user is the owner or has a grant and the
\* type is image/* or application/pdf; without access the answer is 403
\* whatever the type is, and with access and another type it is 400.
C15_PreviewGate ==
  ( /\ response.op = "GET /files/:id/preview"
    /\ response.caller \in Users )
  => \A f \in getFile(files, response.fileId) :
       LET access == \/ f.ownerId = response.caller
                     \/ HasGrant(fileShares, f.id, response.caller)
           shown == f.type[1] = "image" \/ f.type = <<"application", "pdf">>
       IN  /\ ~access => (response.status = 403 /\ NoFileData(response))
           /\ (access /\ ~shown) =>
                (response.status = 400 /\ NoFileData(response))
           /\ (response.data # NoData \/ response.key # NoKey) =>
                (access /\ shown /\ response.status = 200)

\* a stranger asked for the preview of a text file and was answered 403
C15_Witness ==
  /\ response.op = "GET /files/:id/preview"
  /\ response.caller \in Users
  /\ response.status = 403
  /\ \E f \in getFile(files, response.fileId) : f.type = <<"text", "plain">>

\* the request body a stored file was created from (the fixtures differ in
\* their type)
UploadOf(f) ==
  CHOOSE u \in Uploads :
    u.type = f.type /\ u.size = f.size /\ u.encryptionKey = f.encryptionKey

\* C16: a download of an existing file by its owner or a grantee, when the
\* file was created by POST /api/files with ciphertext D and key K, is
\* answered 200 with encryptedData = D and encryptionKey = K; no download
\* returns anything else.
C16_DownloadRoundTrip ==
  (response.op = "GET /files/:id/download" /\ response.caller \in Users) =>
    \A f \in getFile(files, response.fileId) :
      /\ ( /\ \/ f.ownerId = response.caller
              \/ HasGrant(fileShares, f.id, response.caller)
           /\ UploadOf(f).encryptedData # Missing )
         => /\ response.status = 200
            /\ response.data = UploadOf(f).encryptedData
            /\ response.key = UploadOf(f).encryptionKey
      /\ response.data # NoData =>
           /\ response.data = UploadOf(f).encryptedData
           /\ response.key = UploadOf(f).encryptionKey

\* a grantee who is not the owner downloaded the image
C16_Witness ==
  /\ response.op = "GET /files/:id/download"
  /\ response.status = 200
  /\ response.data = Image.encryptedData
  /\ response.key = Image.encryptionKey
  /\ HasGrant(fileShares, response.fileId, response.caller)
  /\ ~IsOwner(files, response.fileId, response.caller)

\* C17: the file a POST /api/files answered 201 has created is owned by the
\* caller, whatever ownerId the body named, and no step changes the ownerId
\* of a file that stays stored.
C17_OwnerIsCreator ==
  [][ /\ (response'.op = "POST /files" /\ response'.status = 201) =>
           /\ response'.file = files' \ files
           /\ \A f \in response'.file :
                f.ownerId = response'.caller /\ f.id = response'.fileId
      /\ \A f \in files : \A g \in files' :
           g.id = f.id => g.ownerId = f.ownerId ]_vars

\* user 1 was answered 201 for a body that names user 2 as ownerId
C17_Witness ==
  /\ response.op = "POST /files"
  /\ response.status = 201
  /\ response.caller = 1
  /\ \E f \in response.file :
       f \in files /\ UploadOf(f).ownerId = 2 /\ f.ownerId = 1

\* C18: GET /api/files/shared by a signed-in user U is answered 200 with
\* exactly the stored files that have a grant row for U, one entry per grant
\* row, and U passes checkFileAccess for each of them.
C18_SharedListing ==
  (response.op = "GET /files/shared" /\ response.caller \in Users) =>
    /\ response.status = 200
    /\ response.shared =
         UNION {{<<s.id, f>> : f \in {g \in files : g.id = s.fileId}} :
                  s \in {x \in fileShares : x.userId = response.caller}}
    /\ \A e \in response.shared :
         checkFileAccess(backend, files, fileShares, e[2].id, response.caller)

\* C19: from every state in which the server takes a request and for every
\* owner, file, permission and recipient, whenever the e-mail resolves to the user the id resolves to,
\* the share handler and the share-by-id handler give the same status, the
\* same grant row, the same stats and the same sequences, whether or not the
\* Supabase signed-URL call of share-by-id fails; a share-by-id answered
\* after a failed Supabase call is a 201 whose grant is stored.
C19_ShareByEmailAndById ==
  /\ \A c \in Users : \A f \in FileIds : \A p \in Permissions \cup {Missing} :
       \A e \in Emails : \A u \in Users \cup {UnknownUser} :
         (Idle /\ getUserByEmail(backend, e) = getUser(u)) =>
           \A signed \in BOOLEAN :
             Share_handler(backend, files, fileShares, stats, currentId,
                           c, f, e, p)
               = ShareById_handler(backend, files, fileShares, stats,
                                   currentId, c, f, u, p, signed)
  /\ ( /\ response.op = "POST /files/share-by-id"
       /\ response.supabase = "failed" )
     => /\ response.status = 201
        /\ response.share # {}
        /\ response.share \subseteq fileShares

\* a share-by-id whose Supabase call failed was answered 201 with a grant to
\* the other user
C19_Witness ==
  /\ response.op = "POST /files/share-by-id"
  /\ response.supabase = "failed"
  /\ response.status = 201
  /\ \E s \in response.share :
       s \in fileShares /\ s.userId # response.caller

\* C20: two updateUserStats calls for one user that both read the same row
\* before either wrote it leave, once both have written, the counters one of
\* them computed from that read: the delta of the other is lost.
C20_LostUpdate ==
  ( /\ \A p \in Procs : calls[p].pc = "done"
    /\ calls[1].userId = calls[2].userId
    /\ calls[1].userStat = calls[2].userStat )
  => \A read \in calls[1].userStat :
       \A row \in {s \in stats : s.id = read.id} :
         \E p \in Procs :
           row = DatabaseStorage_newValues(read, calls[p].updates)

\* two uploads for one user both read filesUploaded = n and both wrote: the
\* row says n + 1
C20_Witness ==
  /\ \A p \in Procs :
       calls[p].pc = "done" /\ calls[p].updates.filesUploaded = 1
  /\ calls[1].userId = calls[2].userId
  /\ calls[1].userStat = calls[2].userStat
  /\ \E read \in calls[1].userStat : \E row \in stats :
       row.id = read.id /\ row.filesUploaded = read.filesUploaded + 1

\* C21: in every reachable state every user has at most one row in stats,
\* also while updateUserStats calls for that user overlap.
C21_OneStatRowPerUser ==
  \A u \in Users : Cardinality(getUserStats(stats, u)) <= 1

DownloadPayload(blobs, file) ==
  [encryptedData |-> retrieveFile(blobs, file.cid) \ {Missing},
   encryptionKey |-> file.encryptionKey,
   type |-> file.type]

\* what a successful download of the file writes: one more download of the
\* owner and one "retrieve" transaction
DownloadEffect(file) ==
  [stats |-> updateUserStats(backend, stats, currentId.stats, file.ownerId,
                             [NoUpdates EXCEPT !.downloads = 1]),
   transactions |-> transactions \cup
      {logTransaction(currentId.transactions, file.cid, file.id, "retrieve")}]

\* C23 as stated: a preview answered 200 returns the payload a download of
\* the same file returns in the same state, and writes what that download
\* writes: the owner's downloads grow by one and a "retrieve" transaction is
\* logged.
C23_PreviewSameAsDownload ==
  [][ ( /\ Idle
        /\ response'.op = "GET /files/:id/preview"
        /\ response'.status = 200 )
      => \A f \in getFile(files, response'.fileId) :
           /\ response'.data \in DownloadPayload(storedFiles, f).encryptedData
           /\ response'.key = DownloadPayload(storedFiles, f).encryptionKey
           /\ stats' = DownloadEffect(f).stats
           /\ transactions' = DownloadEffect(f).transactions ]_vars

\* C23, amended: a preview answered 200 returns the payload a download of the
\* same file returns in the same state, for a file whose type is image/* or
\* application/pdf, and writes nothing: stats, transactions and every other
\* table are as they were before the request.
C23_PreviewPayloadOnly ==
  [][ ( /\ Idle
        /\ response'.op = "GET /files/:id/preview"
        /\ response'.status = 200 )
      => /\ store' = store
         /\ \A f \in getFile(files, response'.fileId) :
              /\ previewable(DownloadPayload(storedFiles, f).type)
              /\ response'.data \in DownloadPayload(storedFiles, f).encryptedData
              /\ response'.key = DownloadPayload(storedFiles, f).encryptionKey ]_vars

\* a grantee previewed the image: the answer carries its ciphertext and key
\* and the owner's stats row counts no download
C23_Witness ==
  /\ response.op = "GET /files/:id/preview"
  /\ response.status = 200
  /\ response.data # NoData
  /\ \E f \in getFile(files, response.fileId) :
       /\ f.ownerId # response.caller
       /\ \A s \in getUserStats(stats, f.ownerId) : s.downloads = 0
       /\ \A t \in transactions : t.type # "retrieve"

\* ---------------------------------------------------------------------
\* POST /api/files statement by statement.  The handler awaits the blob
\* put, the File insert, the stats update and the transaction log one after
\* the other, with no database transaction around them; a rejected await
\* ends the handler in its catch block.  calls[1] holds the request: the
\* statement it is about to run, its body, the cid of the blob put and the
\* stats and transactions tables as they were when the request arrived.
\* ---------------------------------------------------------------------

UploadSteps == {"upload:file", "upload:stats", "upload:log"}

\* insertFileSchema.parse and filecoin.storeFile
UploadPut(caller, u) ==
  /\ Idle
  /\ calls[1] = NoCall
  /\ u.encryptionKey # Missing
  /\ currentId.cids <= MaxFiles
  /\ currentId.files <= MaxFiles
  /\ storedFiles' = storedFiles \cup {<<currentId.cids, u.encryptedData>>}
  /\ currentId' = [currentId EXCEPT !.cids = @ + 1]
  /\ calls' = [calls EXCEPT ![1] =
       [pc |-> "upload:file", caller |-> caller, upload |-> u,
        cid |-> currentId.cids, fileId |-> 0,
        stats |-> stats, transactions |-> transactions]]
  /\ UNCHANGED <<backend, baseline, response, files, fileShares, shareLinks,
                 transactions, stats>>

\* storage.createFile
UploadCreateFile ==
  LET c == calls[1]
      file == createFile(currentId.files, c.upload.size, c.upload.type, c.cid,
                         c.upload.encryptionKey,
                         parsedOwnerId(c.upload.ownerId, c.caller))
  IN  /\ c.pc = "upload:file"
      /\ files' = files \cup {file}
      /\ currentId' = [currentId EXCEPT !.files = @ + 1]
      /\ calls' = [calls EXCEPT ![1] =
           [c EXCEPT !.pc = "upload:stats", !.fileId = file.id]]
      /\ UNCHANGED <<backend, baseline, response, fileShares, shareLinks,
                     transactions, stats, storedFiles>>

\* storage.updateUserStats
UploadStats ==
  LET c == calls[1]
  IN  /\ c.pc = "upload:stats"
      /\ stats' = updateUserStats(backend, stats, currentId.stats, c.caller,
                    [NoUpdates EXCEPT !.filesUploaded = 1,
                                      !.storageUsed = c.upload.size])
      /\ currentId' = [currentId EXCEPT
           !.stats = statsIdAfter(stats, @, c.caller)]
      /\ calls' = [calls EXCEPT ![1] = [c EXCEPT !.pc = "upload:log"]]
      /\ UNCHANGED <<backend, baseline, response, files, fileShares, shareLinks,
                     transactions, storedFiles>>

\* storage.logTransaction and the 201 answer
UploadLog ==
  LET c == calls[1]
  IN  /\ c.pc = "upload:log"
      /\ transactions' = transactions \cup
           {logTransaction(currentId.transactions, c.cid, c.fileId, "store")}
      /\ currentId' = [currentId EXCEPT !.transactions = @ + 1]
      /\ calls' = [calls EXCEPT ![1] = NoCall]
      /\ response' = [Reply("POST /files", c.caller, c.fileId, 201)
                        EXCEPT !.file = getFile(files, c.fileId)]
      /\ UNCHANGED <<backend, baseline, files, fileShares, shareLinks, stats,
                     storedFiles>>

Mutant_UploadFails_rollback ==
  LET c == calls[1]
  IN  /\ backend = "db"
      /\ c.pc \in UploadSteps
      /\ calls' = [calls EXCEPT ![1] = NoCall]
      /\ response' = Reply("POST /files", c.caller, c.fileId, 500)
      /\ storedFiles' = {b \in storedFiles : b[1] # c.cid}
      /\ files' = {f \in files : f.cid # c.cid}
      /\ stats' = c.stats
      /\ UNCHANGED <<backend, baseline, fileShares, shareLinks, transactions,
                     currentId>>

\* the awaited storage call is rejected (DatabaseStorage: the statement
\* fails); catch passes the error on and the request is answered 500.
\* Nothing the earlier statements wrote is undone.
UploadFails ==
  LET c == calls[1]
  IN  /\ backend = "db"
      /\ c.pc \in UploadSteps
      /\ calls' = [calls EXCEPT ![1] = NoCall]
      /\ response' = Reply("POST /files", c.caller, c.fileId, 500)
      /\ UNCHANGED <<backend, baseline, store>>

NextUpload ==
  \/ \E caller \in Users, u \in Uploads : UploadPut(caller, u)
  \/ UploadCreateFile
  \/ UploadStats
  \/ UploadLog
  \/ UploadFails
  \/ Deliver

SpecUpload == Init /\ [][NextUpload]_vars

\* C24: an upload whose File insert fails after the blob put leaves the blob
\* stored with no File row referencing it and stats and transactions as they
\* were; an upload that fails at a later step leaves the File row stored
\* while the owner's stats update or the "store" transaction is missing.
C24_UploadNotAtomic ==
  [][ ( /\ calls[1].pc \in UploadSteps
        /\ response'.op = "POST /files"
        /\ response'.status = 500 )
      => LET c == calls[1]
         IN  /\ <<c.cid, c.upload.encryptedData>> \in storedFiles'
             /\ transactions' = c.transactions
             /\ \A t \in transactions' : ~(t.type = "store" /\ t.cid = c.cid)
             /\ c.pc = "upload:file" =>
                  /\ \A f \in files' : f.cid # c.cid
                  /\ stats' = c.stats
             /\ c.pc = "upload:stats" =>
                  /\ \E f \in files' : f.cid = c.cid /\ f.id = c.fileId
                  /\ stats' = c.stats
             /\ c.pc = "upload:log" =>
                  /\ \E f \in files' : f.cid = c.cid /\ f.id = c.fileId
                  /\ StatRow(stats', c.caller).filesUploaded
                       = StatRow(c.stats, c.caller).filesUploaded + 1
                  /\ StatRow(stats', c.caller).storageUsed
                       = StatRow(c.stats, c.caller).storageUsed + c.upload.size
    ]_vars

\* both kinds of failed upload have happened: a blob that no File row
\* references, and a File row whose cid no "store" transaction carries
C24_Witness ==
  /\ response.op = "POST /files"
  /\ response.status = 500
  /\ \E b \in storedFiles : \A f \in files : f.cid # b[1]
  /\ \E f \in files : \A t \in transactions : t.cid # f.cid

\* C25: every request answered 400, 401, 403 or 404 leaves files, grants,
\* share links, stats, transactions, the id sequences and the stored blobs
\* exactly as they were before the request.
C25_RefusalsWriteNothing ==
  [][ response'.status \in {400, 401, 403, 404} => store' = store ]_vars

\* an upload without ciphertext was answered 400 by POST /api/files/upload
\* in a vault that holds a file, a grant and a blob
C25_Witness ==
  /\ response.op = "POST /files/upload"
  /\ response.status = 400
  /\ fileShares # {}
  /\ files # {}
  /\ storedFiles # {}

\* C26: file deletion is all-or-nothing.  After a DELETE request, whatever
\* its answer, a file that is still stored has every grant and every share
\* link it had before the request.
C26_DeleteAllOrNothing ==
  [][ response'.op = "DELETE /files/:id"
      => \A f \in files' :
           /\ {s \in fileShares : s.fileId = f.id} \subseteq fileShares'
           /\ {l \in shareLinks : l.fileId = f.id} \subseteq shareLinks' ]_vars

\* the files a user owns, and the sum of their sizes
OwnedFiles(fs, userId) == {f \in fs : f.ownerId = userId}

RECURSIVE SumOfSizes(_)
SumOfSizes(fs) ==
  IF fs = {} THEN 0
  ELSE LET f == CHOOSE x \in fs : TRUE
       IN  f.size + SumOfSizes(fs \ {f})

\* C27: with requests handled one at a time, after every upload and every
\* DELETE each user's filesUploaded is the number of files the user owns and
\* storageUsed is the sum of the sizes of those files.
C27_StatsAgreeWithFiles ==
  \A u \in Users :
    /\ StatRow(stats, u).filesUploaded = Cardinality(OwnedFiles(files, u))
    /\ StatRow(stats, u).storageUsed = SumOfSizes(OwnedFiles(files, u))

\* a user who had uploaded two files deleted one of them: the other one is
\* still counted
C27_Witness ==
  /\ response.op = "DELETE /files/:id"
  /\ response.status = 200
  /\ OwnedFiles(files, response.caller) # {}
  /\ StatRow(stats, response.caller).filesUploaded = 1
  /\ StatRow(stats, response.caller).storageUsed > 0

\* the request presented the token of a stored link to the file it asks for,
\* with the password the link was issued with
ValidToken(r) ==
  \E l \in shareLinks :
    /\ l.linkToken = r.token
    /\ l.fileId = r.fileId
    /\ l.requiresPassword => l.password = r.password

\* C28: a share-link request changes nobody's access: checkFileAccess and
\* the gate of GET metadata, download and preview give the same answer for
\* every file and every caller before and after it, and the files and blobs
\* they serve are the same; and a read request that presents a link token
\* is given metadata, ciphertext or key only if its caller is the signed-in
\* owner or a grantee of the file.
C28_LinksGrantNothing ==
  [][ /\ response'.op = "POST /files/share-link" =>
           /\ files' = files
           /\ fileShares' = fileShares
           /\ storedFiles' = storedFiles
           /\ \A f \in FileIds : \A u \in Callers :
                /\ (checkFileAccess(backend, files, fileShares, f, u))'
                     = checkFileAccess(backend, files, fileShares, f, u)
                /\ (readGate(backend, files, fileShares, u, f))'
                     = readGate(backend, files, fileShares, u, f)
      /\ ( /\ response'.op \in ReadOps
           /\ response'.token # NoToken
           /\ ~NoFileData(response') ) =>
           /\ response'.caller \in Users
           /\ \/ IsOwner(files, response'.fileId, response'.caller)
              \/ HasGrant(fileShares, response'.fileId, response'.caller)
    ]_vars

\* a signed-in user without a grant presented a valid link token for the
\* file and was refused
C28_Witness ==
  /\ response.op \in ReadOps
  /\ ValidToken(response)
  /\ response.caller \in Users
  /\ response.status = 403
  /\ NoFileData(response)

\* C29: the client's upload round trip.  When POST /api/files/upload has
\* stored ciphertext D and answered with cid c, and the client's POST
\* /api/files with the metadata, the key and c is answered 201, the stored
\* file's cid is c and the blob store holds D under the file's cid, so that
\* the owner's download returns D.
C29_ClientUploadRoundTrip ==
  [][ ( /\ response.op = "POST /files/upload"
        /\ response.status = 200
        /\ response'.op = "POST /files"
        /\ response'.status = 201 )
      => \A f \in response'.file :
           /\ f \in files'
           /\ f.cid = response.cid
           /\ retrieveFile(storedFiles', f.cid)
                = retrieveFile(storedFiles, response.cid)
           /\ Missing \notin retrieveFile(storedFiles', f.cid) ]_vars

\* C30: a download answered 200 adds exactly 1 to the downloads counter of
\* the owner of the file, whoever the caller is, appends exactly one
\* transaction of type "retrieve" with the id and the cid of the file, and
\* changes no other counter of any user, no file, no grant, no link and no
\* blob.
C30_DownloadEffect ==
  [][ ( /\ response'.op = "GET /files/:id/download"
        /\ response'.status = 200 )
      => \A f \in getFile(files, response'.fileId) :
           /\ StatRow(stats', f.ownerId)
                = [StatRow(stats, f.ownerId) EXCEPT
                     !.id = StatRow(stats', f.ownerId).id,
                     !.downloads = @ + 1]
           /\ \A u \in Users \ {f.ownerId} :
                getUserStats(stats', u) = getUserStats(stats, u)
           /\ Cardinality(getUserStats(stats', f.ownerId)) = 1
           /\ transactions \subseteq transactions'
           /\ Cardinality(transactions' \ transactions) = 1
           /\ \A t \in transactions' \ transactions :
                t.type = "retrieve" /\ t.fileId = f.id /\ t.cid = f.cid
           /\ files' = files
           /\ fileShares' = fileShares
           /\ shareLinks' = shareLinks
           /\ storedFiles' = storedFiles ]_vars

\* a grantee downloaded a file of another user: the owner's row counts the
\* download and the grantee's counters do not
C30_Witness ==
  /\ response.op = "GET /files/:id/download"
  /\ response.status = 200
  /\ \E f \in getFile(files, response.fileId) :
       /\ f.ownerId # response.caller
       /\ StatRow(stats, f.ownerId).downloads = 1
       /\ StatRow(stats, response.caller).downloads = 0
       /\ \E t \in transactions : t.type = "retrieve" /\ t.fileId = f.id

====
